---------------------------- MODULE Spec2Model ----------------------------
(***************************************************************************)
(* A model of scripts/equilibrium_lesson.py: the search for the            *)
(* equilibrium points of U(x) = x^4 - 4x^2 + x, their classification, and  *)
(* the order of the steps of main.                                         *)
(*                                                                         *)
(* Positions, forces and curvatures are Python floats, that is IEEE 754    *)
(* binary64 numbers.  They are modelled bit for bit: a finite float is a   *)
(* sign, a 53-bit significand m and an exponent e, with value m * 2^e, and *)
(* every arithmetic operation computes the exact result and rounds it to   *)
(* the nearest float, ties to even.  A significand does not fit TLC's      *)
(* 32-bit integers, so naturals of any size are sequences of limbs.        *)
(* Subnormals, infinities and the sign of zero are left out: no value of   *)
(* the model comes near them.  x**n is taken to be correctly rounded.      *)
(***************************************************************************)
EXTENDS Integers, Sequences, FiniteSets, TLC

----------------------------------------------------------------------------
(* Naturals of any size: little-endian sequences of limbs in 0..Base-1,    *)
(* without leading zero limbs; zero is the empty sequence.                 *)

RECURSIVE BitLenNat(_)
BitLenNat(n) == IF n = 0 THEN 0 ELSE 1 + BitLenNat(n \div 2)

Base == 2^15
LimbBits == BitLenNat(Base) - 1

RECURSIVE BigNorm(_)
BigNorm(a) ==
    IF a = <<>> THEN <<>>
    ELSE IF a[Len(a)] = 0 THEN BigNorm(SubSeq(a, 1, Len(a) - 1))
    ELSE a

RECURSIVE BigOfNat(_)
BigOfNat(n) ==
    IF n = 0 THEN <<>> ELSE <<n % Base>> \o BigOfNat(n \div Base)

RECURSIVE BigAddC(_, _, _)
BigAddC(a, b, c) ==
    IF a = <<>> /\ b = <<>> THEN (IF c = 0 THEN <<>> ELSE <<c>>)
    ELSE LET x == IF a = <<>> THEN 0 ELSE Head(a)
             y == IF b = <<>> THEN 0 ELSE Head(b)
             s == x + y + c
         IN  <<s % Base>> \o BigAddC(IF a = <<>> THEN <<>> ELSE Tail(a),
                                     IF b = <<>> THEN <<>> ELSE Tail(b),
                                     s \div Base)

BigAdd(a, b) == BigAddC(a, b, 0)

RECURSIVE BigSubB(_, _, _)
BigSubB(a, b, c) ==
    IF a = <<>> THEN <<>>
    ELSE LET y == IF b = <<>> THEN 0 ELSE Head(b)
             d == Head(a) - y - c
         IN  <<d % Base>> \o BigSubB(Tail(a),
                                     IF b = <<>> THEN <<>> ELSE Tail(b),
                                     IF d < 0 THEN 1 ELSE 0)

(* a - b, for a >= b *)
BigSub(a, b) == BigNorm(BigSubB(a, b, 0))

RECURSIVE BigCmpTop(_, _, _)
BigCmpTop(a, b, i) ==
    IF i = 0 THEN 0
    ELSE IF a[i] < b[i] THEN -1
    ELSE IF a[i] > b[i] THEN 1
    ELSE BigCmpTop(a, b, i - 1)

(* -1, 0 or 1 as a < b, a = b or a > b *)
BigCmp(a, b) ==
    IF Len(a) < Len(b) THEN -1
    ELSE IF Len(a) > Len(b) THEN 1
    ELSE BigCmpTop(a, b, Len(a))

RECURSIVE BigMulSmallC(_, _, _)
BigMulSmallC(a, d, c) ==
    IF a = <<>> THEN (IF c = 0 THEN <<>> ELSE <<c>>)
    ELSE LET p == Head(a) * d + c
         IN  <<p % Base>> \o BigMulSmallC(Tail(a), d, p \div Base)

(* a * d, for a limb d *)
BigMulSmall(a, d) == IF d = 0 THEN <<>> ELSE BigMulSmallC(a, d, 0)

RECURSIVE BigMul(_, _)
BigMul(a, b) ==
    IF a = <<>> \/ b = <<>> THEN <<>>
    ELSE LET rest == BigMul(a, Tail(b))
         IN  BigAdd(BigMulSmall(a, Head(b)),
                    IF rest = <<>> THEN <<>> ELSE <<0>> \o rest)

RECURSIVE BigPow(_, _)
BigPow(a, n) == IF n = 0 THEN <<1>> ELSE BigMul(a, BigPow(a, n - 1))

Zeros(k) == [i \in 1..k |-> 0]

(* a * 2^k *)
BigShl(a, k) ==
    IF a = <<>> THEN <<>>
    ELSE Zeros(k \div LimbBits) \o BigMulSmall(a, 2^(k % LimbBits))

RECURSIVE BigDivSmallR(_, _, _)
BigDivSmallR(a, d, r) ==
    IF a = <<>> THEN <<>>
    ELSE LET n == Len(a)
             x == r * Base + a[n]
         IN  BigDivSmallR(SubSeq(a, 1, n - 1), d, x % d) \o <<x \div d>>

(* floor(a / 2^k) *)
BigShr(a, k) ==
    LET drop == k \div LimbBits
    IN  IF drop >= Len(a) THEN <<>>
        ELSE BigNorm(BigDivSmallR(SubSeq(a, drop + 1, Len(a)),
                                  2^(k % LimbBits), 0))

BigBitLen(a) ==
    IF a = <<>> THEN 0 ELSE (Len(a) - 1) * LimbBits + BitLenNat(a[Len(a)])

BigIsOdd(a) == a # <<>> /\ a[1] % 2 = 1

----------------------------------------------------------------------------
(* Python floats.  A finite float is [nan |-> FALSE, neg, m, e] with value *)
(* (-1)^neg * m * 2^e, where m is zero (and e = 0) or has exactly MantBits *)
(* bits; NaN is the one float with nan = TRUE.                             *)

MantBits == 52 + 1

NaN == [nan |-> TRUE, neg |-> FALSE, m |-> <<>>, e |-> 0]
FZero == [nan |-> FALSE, neg |-> FALSE, m |-> <<>>, e |-> 0]

(* The float nearest to (-1)^neg * M * 2^e, ties to even. *)
FRound(neg, M, e) ==
    LET L == BigBitLen(M) IN
    IF M = <<>> THEN FZero
    ELSE IF L <= MantBits
    THEN [nan |-> FALSE, neg |-> neg,
          m |-> BigShl(M, MantBits - L), e |-> e - (MantBits - L)]
    ELSE LET k == L - MantBits
             q == BigShr(M, k)
             r == BigSub(M, BigShl(q, k))
             c == BigCmp(BigShl(r, 1), BigShl(<<1>>, k))
             up == c > 0 \/ (c = 0 /\ BigIsOdd(q))
             q2 == IF up THEN BigAdd(q, <<1>>) ELSE q
         IN  IF BigBitLen(q2) > MantBits
             THEN [nan |-> FALSE, neg |-> neg, m |-> BigShr(q2, 1), e |-> e + k + 1]
             ELSE [nan |-> FALSE, neg |-> neg, m |-> q2, e |-> e + k]

(* The float of an integer literal. *)
FInt(n) == FRound(n < 0, BigOfNat(IF n < 0 THEN -n ELSE n), 0)

(* The float with significand hi * 2^30 + lo and exponent e. *)
FBits(neg, hi, lo, e) ==
    FRound(neg, BigAdd(BigShl(BigOfNat(hi), 30), BigOfNat(lo)), e)

FNeg(a) == IF a.nan \/ a.m = <<>> THEN a ELSE [a EXCEPT !.neg = ~a.neg]

FAbs(a) == IF a.nan THEN a ELSE [a EXCEPT !.neg = FALSE]

FMul(a, b) ==
    IF a.nan \/ b.nan THEN NaN
    ELSE FRound(a.neg # b.neg, BigMul(a.m, b.m), a.e + b.e)

FAdd(a, b) ==
    IF a.nan \/ b.nan THEN NaN
    ELSE IF a.m = <<>> THEN b
    ELSE IF b.m = <<>> THEN a
    ELSE LET e == IF a.e < b.e THEN a.e ELSE b.e
             A == BigShl(a.m, a.e - e)
             B == BigShl(b.m, b.e - e)
             c == BigCmp(A, B)
         IN  IF a.neg = b.neg THEN FRound(a.neg, BigAdd(A, B), e)
             ELSE IF c = 0 THEN FZero
             ELSE IF c > 0 THEN FRound(a.neg, BigSub(A, B), e)
             ELSE FRound(b.neg, BigSub(B, A), e)

FSub(a, b) == FAdd(a, FNeg(b))

(* x ** n for a literal n >= 1, correctly rounded *)
FPow(x, n) ==
    IF x.nan THEN NaN
    ELSE FRound(x.neg /\ n % 2 = 1, BigPow(x.m, n), x.e * n)

(* -1, 0 or 1 as a < b, a = b or a > b, for finite a and b *)
FCmp(a, b) ==
    LET e == IF a.e < b.e THEN a.e ELSE b.e
        A == BigShl(a.m, a.e - e)
        B == BigShl(b.m, b.e - e)
        c == BigCmp(A, B)
    IN  IF a.neg /\ ~b.neg THEN (IF A = <<>> /\ B = <<>> THEN 0 ELSE -1)
        ELSE IF ~a.neg /\ b.neg THEN (IF A = <<>> /\ B = <<>> THEN 0 ELSE 1)
        ELSE IF a.neg THEN -c ELSE c

(* Python's comparisons: every comparison with NaN is False. *)
FLt(a, b) == ~a.nan /\ ~b.nan /\ FCmp(a, b) < 0
FGt(a, b) == ~a.nan /\ ~b.nan /\ FCmp(a, b) > 0

----------------------------------------------------------------------------
(* The functions of the lesson. *)

(* U(x) = x**4 - 4*x**2 + x *)
potential_energy(x) == FAdd(FSub(FPow(x, 4), FMul(FInt(4), FPow(x, 2))), x)

(* F(x) = -4*x**3 + 8*x - 1 *)
force(x) == FSub(FAdd(FMul(FInt(-4), FPow(x, 3)), FMul(FInt(8), x)), FInt(1))

(* A faulty variant: a sign slip, 12*x**2 + 8. *)
second_derivative_plus(x) == FAdd(FMul(FInt(12), FPow(x, 2)), FInt(8))

(* d2U/dx2 = 12*x**2 - 8 *)
second_derivative(x) == FSub(FMul(FInt(12), FPow(x, 2)), FInt(8))

(* The literals 1e-6 (0x1.0c6f7a0b5ed8dp-20) and 0.1 (0x1.999999999999ap-4) *)
TolRoot == FBits(FALSE, 4398046, 548793741, -72)
TolDistinct == FBits(FALSE, 6710886, 429496730, -56)

(* Whether f is the float nearest to n / 10^k: what parsing a literal gives. *)
IsLiteral(f, n, k) ==
    LET lhs == BigMul(f.m, BigPow(BigOfNat(10), k))
        rhs == BigShl(BigOfNat(n), -f.e)
        d == IF BigCmp(lhs, rhs) >= 0 THEN BigSub(lhs, rhs) ELSE BigSub(rhs, lhs)
    IN  ~f.nan /\ ~f.neg /\ f.e < 0
        /\ BigCmp(BigShl(d, 1), BigPow(BigOfNat(10), k)) <= 0

LiteralsOk == IsLiteral(TolRoot, 1, 6) /\ IsLiteral(TolDistinct, 1, 1)

(* sorted(points): ascending by value; the points are finite and distinct. *)
RECURSIVE Insert(_, _)
Insert(x, s) ==
    IF s = <<>> THEN <<x>>
    ELSE IF FLt(x, Head(s)) THEN <<x>> \o s
    ELSE <<Head(s)>> \o Insert(x, Tail(s))

(* A faulty variant: the list is returned in the order of acceptance. *)
sorted_missing(s) == s

RECURSIVE sorted(_)
sorted(s) == IF s = <<>> THEN <<>> ELSE Insert(s[Len(s)], sorted(SubSeq(s, 1, Len(s) - 1)))

(* A faulty variant: the candidate is compared with the last accepted point only. *)
is_new_last_only(x_eq, points) ==
    points = <<>> \/ FGt(FAbs(FSub(x_eq, points[Len(points)])), TolDistinct)

(* all(abs(x_eq - x_existing) > 0.1 for x_existing in equilibrium_points) *)
is_new(x_eq, points) ==
    \A k \in 1..Len(points) : FGt(FAbs(FSub(x_eq, points[k])), TolDistinct)

(* A faulty variant: the force at the candidate is not looked at. *)
Accepted_without_force(x_eq, points) == is_new(x_eq, points)

(* is_new and abs(force(x_eq)) < 1e-6 *)
Accepted(x_eq, points) ==
    is_new(x_eq, points) /\ FLt(FAbs(force(x_eq)), TolRoot)

(* A faulty variant: a curvature within 1e-6 of zero counts as neutral. *)
classify_equilibrium_banded(x_eq) ==
    LET d2U == second_derivative(x_eq) IN
    IF FLt(FAbs(d2U), TolRoot) THEN <<"neutral", d2U>>
    ELSE IF FGt(d2U, FInt(0)) THEN <<"stable", d2U>>
    ELSE <<"unstable", d2U>>

(* classify_equilibrium(x_eq): the pair (label, curvature) *)
classify_equilibrium(x_eq) ==
    LET d2U == second_derivative(x_eq) IN
    IF FGt(d2U, FInt(0)) THEN <<"stable", d2U>>
    ELSE IF FLt(d2U, FInt(0)) THEN <<"unstable", d2U>>
    ELSE <<"neutral", d2U>>

----------------------------------------------------------------------------
(* The inputs.                                                             *)

(* How many floats next to the middle root fsolve may return besides the   *)
(* root itself.                                                            *)
Spread == 1

(* The floats nearest to the three roots of the force (found by bisection) *)
RootLeft == FBits(TRUE, 6178199, 784199805, -52)      \* -1.4729976011140302
RootMid == FBits(FALSE, 4227864, 960056654, -55)      \*  0.1260001925862561
RootRight == FBits(FALSE, 5649716, 664192722, -52)    \*  1.3469974085277738

(* RootMid + d * 2^-30: off the root by d * 9.3e-10 *)
NearMid(d) == FAdd(RootMid, FRound(FALSE, BigOfNat(d), -30))

(* 0.125: the first Newton iterate from the seed 0, not yet a root *)
Iterate == FBits(FALSE, 4194304, 0, -55)

(* What fsolve may hand back as x: roots, near-roots, an iterate that is   *)
(* no root, and NaN.                                                       *)
Candidates ==
    {RootLeft, RootRight, Iterate, NaN} \cup {NearMid(d) : d \in 0..Spread}

(* An outcome of fsolve(force, x_guess): it raises, or it returns x, having *)
(* converged or not (then it only warns; the caller sees x alone).          *)
Raise == [raises |-> TRUE, x |-> NaN, converged |-> FALSE]
Outcomes ==
    {Raise} \cup {[raises |-> FALSE, x |-> c, converged |-> b] :
                     c \in Candidates, b \in BOOLEAN}

(* for x_guess in [-2, 0, 2] *)
Guesses == <<-2, 0, 2>>

Range(s) == {s[k] : k \in 1..Len(s)}

----------------------------------------------------------------------------
(* The state.                                                              *)

VARIABLES
    fsolve,              \* scipy's fsolve(force, .): seed -> outcome, a fixed function
    guesses,             \* the seed list the loop of find_equilibrium_points runs over
    pc,                  \* where main is
    caller,              \* who called find_equilibrium_points
    i,                   \* the loop's position in guesses
    equilibrium_points,  \* find_equilibrium_points' list of accepted points
    eq_points,           \* main's eq_points
    viz_points,          \* create_visualization's eq_points
    rows,                \* the table rows print_analysis printed
    panels,              \* the markers plotted on ax1, ax2, ax3 so far
    file,                \* what savefig wrote: <<>> (nothing yet) or the panels saved
    shown,               \* what plt.show displayed: <<>> or the panels shown
    events               \* history: the steps taken so far, in order

vars == <<fsolve, guesses, pc, caller, i, equilibrium_points, eq_points,
          viz_points, rows, panels, file, shown, events>>

(* A faulty variant: the seed list is left reversed by the first invocation. *)
x_guess_reversed ==
    IF caller = "main" THEN guesses[i] ELSE guesses[Len(guesses) + 1 - i]

x_guess == guesses[i]

(* A faulty variant: no handler, the exception leaves the loop. *)
Caught_never(outcome) == FALSE

(* except: pass -- a bare except catches whatever the try block raises *)
Caught(outcome) == TRUE

(* A faulty variant: a candidate close to an accepted point replaces it when its     *)
(* force is smaller.                                                       *)
AfterSeed_keep_best(points, outcome) ==
    IF outcome.raises THEN points
    ELSE IF Accepted(outcome.x, points) THEN Append(points, outcome.x)
    ELSE IF FLt(FAbs(force(outcome.x)), TolRoot)
    THEN [k \in 1..Len(points) |->
             IF /\ ~FGt(FAbs(FSub(outcome.x, points[k])), TolDistinct)
                /\ FLt(FAbs(force(outcome.x)), FAbs(force(points[k])))
             THEN outcome.x ELSE points[k]]
    ELSE points

(* One pass of the loop body on the list points: the list afterwards. *)
AfterSeed(points, outcome) ==
    IF outcome.raises THEN points
    ELSE IF Accepted(outcome.x, points) THEN Append(points, outcome.x)
    ELSE points

(* A faulty variant: the list starts with a placeholder. *)
NewList_placeholder == <<FZero>>

(* equilibrium_points = [] *)
NewList == <<>>

InitWith(seedLists) ==
    /\ guesses \in seedLists
    /\ fsolve \in [Range(guesses) -> Outcomes]
    /\ pc = "main"
    /\ caller = "none"
    /\ i = 1
    /\ equilibrium_points = <<>>
    /\ eq_points = <<>>
    /\ viz_points = <<>>
    /\ rows = <<>>
    /\ panels = <<>>
    /\ file = <<>>
    /\ shown = <<>>
    /\ events = <<>>

Init == InitWith({Guesses})

(* main, line 219: eq_points = find_equilibrium_points() *)
MainFind ==
    /\ pc = "main"
    /\ pc' = "find"
    /\ caller' = "main"
    /\ equilibrium_points' = NewList
    /\ i' = 1
    /\ UNCHANGED <<fsolve, guesses, eq_points, viz_points, rows, panels, file,
                   shown, events>>

(* find_equilibrium_points, lines 56-64: one pass of the loop *)
TrySeed ==
    /\ pc = "find"
    /\ i <= Len(guesses)
    /\ LET outcome == fsolve[x_guess] IN
       IF outcome.raises /\ ~Caught(outcome)
       THEN /\ pc' = "crashed"
            /\ UNCHANGED <<i, equilibrium_points>>
       ELSE /\ equilibrium_points' = AfterSeed(equilibrium_points, outcome)
            /\ i' = i + 1
            /\ pc' = pc
    /\ events' = Append(events, "solve")
    /\ UNCHANGED <<fsolve, guesses, caller, eq_points, viz_points, rows, panels,
                   file, shown>>

(* find_equilibrium_points, line 66: return sorted(equilibrium_points) *)
FindReturn ==
    /\ pc = "find"
    /\ i > Len(guesses)
    /\ LET result == sorted(equilibrium_points) IN
       IF caller = "main"
       THEN eq_points' = result /\ pc' = "print" /\ UNCHANGED viz_points
       ELSE viz_points' = result /\ pc' = "plot" /\ UNCHANGED eq_points
    /\ UNCHANGED <<fsolve, guesses, caller, i, equilibrium_points, rows, panels,
                   file, shown, events>>

Row(x_eq) ==
    LET c == classify_equilibrium(x_eq) IN
    [x |-> x_eq, U |-> potential_energy(x_eq), stability |-> c[1], d2U |-> c[2]]

(* print_analysis(eq_points), lines 194-197: one row per point *)
print_analysis ==
    /\ pc = "print"
    /\ rows' = [k \in 1..Len(eq_points) |-> Row(eq_points[k])]
    /\ events' = events \o [k \in 1..Len(eq_points) |-> "classify"]
    /\ pc' = "viz"
    /\ UNCHANGED <<fsolve, guesses, caller, i, equilibrium_points, eq_points,
                   viz_points, panels, file, shown>>

(* create_visualization, line 91: eq_points = find_equilibrium_points() *)
VizFind ==
    /\ pc = "viz"
    /\ pc' = "find"
    /\ caller' = "create_visualization"
    /\ equilibrium_points' = NewList
    /\ i' = 1
    /\ UNCHANGED <<fsolve, guesses, eq_points, viz_points, rows, panels, file,
                   shown, events>>

Marker(x_eq) == [x |-> x_eq, stability |-> classify_equilibrium(x_eq)[1]]

(* create_visualization, lines 107-113, 126-135, 149-176: the markers of   *)
(* one panel, one per point, each classified again                         *)
PlotPanel ==
    /\ pc = "plot"
    /\ Len(panels) < 3
    /\ panels' = Append(panels, [k \in 1..Len(viz_points) |-> Marker(viz_points[k])])
    /\ events' = events \o [k \in 1..Len(viz_points) |-> "classify"] \o <<"plot">>
    /\ UNCHANGED <<fsolve, guesses, pc, caller, i, equilibrium_points, eq_points,
                   viz_points, rows, file, shown>>

(* create_visualization, line 180, and main, line 225: fig, eq_points = ... *)
VizReturn ==
    /\ pc = "plot"
    /\ Len(panels) = 3
    /\ eq_points' = viz_points
    /\ pc' = "save"
    /\ UNCHANGED <<fsolve, guesses, caller, i, equilibrium_points, viz_points,
                   rows, panels, file, shown, events>>

(* A faulty variant: the figure is saved as soon as it exists, before it is plotted. *)
Save_before_plot ==
    /\ pc = "plot"
    /\ file = <<>>
    /\ Len(panels) < 3
    /\ file' = panels \o <<<<>>>>
    /\ events' = Append(events, "save")
    /\ UNCHANGED <<fsolve, guesses, pc, caller, i, equilibrium_points, eq_points,
                   viz_points, rows, panels, shown>>

(* main, line 229: plt.savefig(output_file, ...) *)
Save ==
    /\ pc = "save"
    /\ file' = panels
    /\ events' = Append(events, "save")
    /\ pc' = "show"
    /\ UNCHANGED <<fsolve, guesses, caller, i, equilibrium_points, eq_points,
                   viz_points, rows, panels, shown>>

(* main, line 233: plt.show() *)
Show ==
    /\ pc = "show"
    /\ shown' = panels
    /\ events' = Append(events, "show")
    /\ pc' = "done"
    /\ UNCHANGED <<fsolve, guesses, caller, i, equilibrium_points, eq_points,
                   viz_points, rows, panels, file>>

Next ==
    \/ MainFind
    \/ TrySeed
    \/ FindReturn
    \/ print_analysis
    \/ VizFind
    \/ PlotPanel
    \/ VizReturn
    \/ Save
    \/ Show

Spec == Init /\ [][Next]_vars

----------------------------------------------------------------------------
(* The finder on other seed lists: the loop of find_equilibrium_points with *)
(* the literal [-2, 0, 2] replaced by any of its sublists, the empty one    *)
(* included.                                                                *)

RECURSIVE Pick(_, _, _)
Pick(s, T, k) ==
    IF k > Len(s) THEN <<>>
    ELSE (IF k \in T THEN <<s[k]>> ELSE <<>>) \o Pick(s, T, k + 1)

SeedLists == {Pick(Guesses, T, 1) : T \in SUBSET (1..Len(Guesses))}

InitSeeds == InitWith(SeedLists)

SpecSeeds == InitSeeds /\ [][Next]_vars

----------------------------------------------------------------------------
(* classify_equilibrium as a function of any finite position: main stands   *)
(* at print_analysis(eq_points) with a list of one position.                *)

(* The positions k/16 for |k| <= GridHalf: -2.5 .. 2.5, the plotted range *)
GridHalf == 40
GridPoint(k) == FRound(k < 0, BigOfNat(IF k < 0 THEN -k ELSE k), -4)

(* The float 0x1.a20bd700c2c3ep-1 = 0.816496580927726, next to sqrt(2/3),   *)
(* where 12*x**2 rounds to 8.0; and its neighbours, u floats away.          *)
Ulps == 2
Inflection == FBits(FALSE, 6849269, 806104126, -53)
NearInflection(u) ==
    IF u < 0 THEN FSub(Inflection, FRound(FALSE, BigOfNat(-u), -53))
    ELSE FAdd(Inflection, FRound(FALSE, BigOfNat(u), -53))

ClassifyInputs ==
    {GridPoint(k) : k \in -GridHalf..GridHalf}
        \cup {NearInflection(u) : u \in -Ulps..Ulps}
        \cup {FNeg(NearInflection(u)) : u \in -Ulps..Ulps}
        \cup (Candidates \ {NaN})

InitClassify ==
    /\ guesses = Guesses
    /\ fsolve = [s \in Range(Guesses) |-> Raise]
    /\ pc = "print"
    /\ caller = "main"
    /\ i = Len(Guesses) + 1
    /\ equilibrium_points = <<>>
    /\ \E x \in ClassifyInputs : eq_points = <<x>>
    /\ viz_points = <<>>
    /\ rows = <<>>
    /\ panels = <<>>
    /\ file = <<>>
    /\ shown = <<>>
    /\ events = <<>>

SpecClassify == InitClassify /\ [][print_analysis]_vars

----------------------------------------------------------------------------
(* Exact arithmetic for the statements below: no rounding.                 *)

BigAbsDiff(a, b) == IF BigCmp(a, b) >= 0 THEN BigSub(a, b) ELSE BigSub(b, a)

(* |a - b| as a natural, in units of 2^e for e the smaller exponent *)
ExactDistance(a, b) ==
    LET e == IF a.e < b.e THEN a.e ELSE b.e
        A == BigShl(a.m, a.e - e)
        B == BigShl(b.m, b.e - e)
    IN  IF a.neg = b.neg THEN BigAbsDiff(A, B) ELSE BigAdd(A, B)

(* |a - b| > 1/10 and |a - b| <= 1/10, as real numbers *)
ExactApart(a, b) ==
    LET e == IF a.e < b.e THEN a.e ELSE b.e IN
    /\ ~a.nan /\ ~b.nan
    /\ e <= 0
    /\ BigCmp(BigMulSmall(ExactDistance(a, b), 10), BigShl(<<1>>, -e)) > 0

ExactClose(a, b) ==
    LET e == IF a.e < b.e THEN a.e ELSE b.e IN
    /\ ~a.nan /\ ~b.nan
    /\ e <= 0
    /\ BigCmp(BigMulSmall(ExactDistance(a, b), 10), BigShl(<<1>>, -e)) <= 0

(* x, rounded to two decimals, is n / 100: |100 x - n| <= 1/2 *)
RoundsTo(x, n) ==
    LET N == BigOfNat(IF n < 0 THEN -n ELSE n)
        lhs == BigMulSmall(x.m, 200)
        rhs == BigShl(BigMulSmall(N, 2), -x.e)
        d == IF x.neg = (n < 0) THEN BigAbsDiff(lhs, rhs) ELSE BigAdd(lhs, rhs)
    IN  ~x.nan /\ x.e <= 0 /\ BigCmp(d, BigShl(<<1>>, -x.e)) <= 0

(* |d - (12 x^2 - 8)| <= 2^-46 as real numbers: d is 12*x**2 - 8 up to the *)
(* rounding of the two float operations, for |x| <= 2.5                    *)
CurvatureIs(x, d) ==
    LET s == IF 2 * x.e < d.e THEN 2 * x.e ELSE d.e
        X == BigShl(BigMulSmall(BigMul(x.m, x.m), 12), 2 * x.e - s)
        E == BigShl(<<8>>, -s)
        D == BigShl(d.m, d.e - s)
        err == IF d.neg THEN BigAbsDiff(BigAdd(X, D), E)
               ELSE BigAbsDiff(X, BigAdd(E, D))
    IN  ~x.nan /\ ~d.nan /\ s <= -46
        /\ BigCmp(err, BigShl(<<1>>, -46 - s)) <= 0

Count(x, s) == Cardinality({k \in 1..Len(s) : s[k] = x})

SameElements(s, t) ==
    /\ Len(s) = Len(t)
    /\ \A x \in Range(s) \cup Range(t) : Count(x, s) = Count(x, t)

Ascending(s) == \A k \in 1..(Len(s) - 1) : FLt(s[k], s[k + 1])

PassesTol(x) == FLt(FAbs(force(x)), TolRoot)

(* find_equilibrium_points has just returned, to main or to                *)
(* create_visualization; Returned is what it returned.                     *)
JustReturned == pc = "print" \/ (pc = "plot" /\ panels = <<>>)
Returned == IF pc = "print" THEN eq_points ELSE viz_points

----------------------------------------------------------------------------
(* C1: every position find_equilibrium_points returns has |force| < 1e-6,  *)
(* whether or not the search that produced it converged.                   *)
C1_ForceBelowTolerance ==
    JustReturned =>
        \A k \in 1..Len(Returned) : FLt(FAbs(force(Returned[k])), TolRoot)

(* A returned point that came from a search that did not converge, beside  *)
(* a candidate that was turned down for its force.                         *)
C1_Witness ==
    /\ JustReturned
    /\ \E s \in Range(guesses) :
          /\ ~fsolve[s].raises /\ ~fsolve[s].converged
          /\ fsolve[s].x \in Range(Returned)
    /\ \E s \in Range(guesses) :
          /\ ~fsolve[s].raises
          /\ ~PassesTol(fsolve[s].x)
          /\ fsolve[s].x \notin Range(Returned)

(* C2: any two positions find_equilibrium_points returns are more than 0.1 *)
(* apart, as real numbers.                                                 *)
C2_PairwiseApart ==
    JustReturned =>
        \A a, b \in 1..Len(Returned) :
            a < b => ExactApart(Returned[a], Returned[b])

(* Two points returned, and a third candidate below the tolerance turned   *)
(* down for being within 0.1 of one of them.                               *)
C2_Witness ==
    /\ JustReturned
    /\ Len(Returned) >= 2
    /\ \E s \in Range(guesses) :
          /\ ~fsolve[s].raises
          /\ PassesTol(fsolve[s].x)
          /\ fsolve[s].x \notin Range(Returned)

(* C3: what find_equilibrium_points returns is ascending and holds exactly *)
(* the accepted positions, each as often as it was accepted.               *)
C3_SortedSameElements ==
    JustReturned =>
        /\ Ascending(Returned)
        /\ SameElements(Returned, equilibrium_points)

(* Three points accepted in an order that is not ascending. *)
C3_Witness ==
    /\ JustReturned
    /\ Len(equilibrium_points) = 3
    /\ ~Ascending(equilibrium_points)

(* C7: the two invocations of one run, main's and create_visualization's,  *)
(* return the same positions in the same order.                            *)
C7_SameResultTwice == pc = "plot" => viz_points = eq_points

(* The second invocation has returned, and the order of the seeds decided  *)
(* which of two close candidates was kept.                                 *)
C7_Witness ==
    /\ pc = "plot"
    /\ Len(viz_points) >= 2
    /\ \E s \in Range(guesses) :
          /\ ~fsolve[s].raises
          /\ PassesTol(fsolve[s].x)
          /\ fsolve[s].x \notin Range(viz_points)

(* C4: classify_equilibrium(x) returns (label, curvature) with curvature   *)
(* 12x^2 - 8 (as floats compute it) and label "stable" iff curvature > 0,  *)
(* "unstable" iff curvature < 0, "neutral" iff curvature is exactly 0; the *)
(* label is one of the three.  Read off the rows print_analysis prints.     *)
C4_LabelBySign ==
    \A k \in 1..Len(rows) :
        LET d == rows[k].d2U
            label == rows[k].stability
        IN  /\ rows[k].x = eq_points[k]
            /\ CurvatureIs(rows[k].x, d)
            /\ label \in {"stable", "unstable", "neutral"}
            /\ label = "stable" <=> (d.m # <<>> /\ ~d.neg)
            /\ label = "unstable" <=> (d.m # <<>> /\ d.neg)
            /\ label = "neutral" <=> d.m = <<>>

(* A position classified neutral: its curvature came out as exactly 0. *)
C4_Witness ==
    /\ rows # <<>>
    /\ rows[1].stability = "neutral"
    /\ rows[1].d2U = FZero

(* The step of one seed: find_equilibrium_points is in its loop. *)
InLoop == pc = "find" /\ i <= Len(guesses)

(* C5 as stated: a seed whose search raises or does not converge           *)
(* contributes no point, and the loop goes on to the next seed.            *)
C5_Original ==
    [][InLoop /\ (fsolve[guesses[i]].raises \/ ~fsolve[guesses[i]].converged)
          => /\ equilibrium_points' = equilibrium_points
             /\ i' = i + 1
             /\ pc' = "find"]_vars

(* C5, amended: a seed whose search raises contributes no point; one whose *)
(* search does not converge contributes its last iterate if and only if    *)
(* that passes the two tests every candidate must pass; either way the     *)
(* accepted points stay, the loop goes on to the next seed, and no error   *)
(* leaves find_equilibrium_points.                                         *)
C5_FailuresSwallowed ==
    [][InLoop =>
          LET outcome == fsolve[guesses[i]] IN
          /\ pc' = "find"
          /\ i' = i + 1
          /\ outcome.raises => equilibrium_points' = equilibrium_points
          /\ (~outcome.raises /\ ~outcome.converged) =>
                IF PassesTol(outcome.x)
                   /\ \A k \in 1..Len(equilibrium_points) :
                         ExactApart(outcome.x, equilibrium_points[k])
                THEN equilibrium_points' = Append(equilibrium_points, outcome.x)
                ELSE equilibrium_points' = equilibrium_points]_vars

(* The first seed's search raised, the second's did not converge and still *)
(* gave a point, and the function returned.                                *)
C5_Witness ==
    /\ pc = "print"
    /\ fsolve[guesses[1]].raises
    /\ ~fsolve[guesses[2]].raises
    /\ ~fsolve[guesses[2]].converged
    /\ fsolve[guesses[2]].x \in Range(eq_points)

(* The sign of 12 x^2 - 8 as a real number: -1, 0 or 1. *)
ExactCurvatureSign(x) ==
    BigCmp(BigMulSmall(BigMul(x.m, x.m), 12), BigShl(<<8>>, -2 * x.e))

(* Every seed's search returns a point that passes the force test, and the *)
(* three points are more than 0.1 apart.                                   *)
EachSeedItsRoot ==
    /\ \A s \in Range(guesses) : ~fsolve[s].raises /\ PassesTol(fsolve[s].x)
    /\ \A s, t \in Range(guesses) :
          s # t => ExactApart(fsolve[s].x, fsolve[t].x)

RECURSIVE DropWhile(_, _)
DropWhile(s, S) ==
    IF s # <<>> /\ Head(s) \in S THEN DropWhile(Tail(s), S) ELSE s

Occurrences(e) == Cardinality({k \in 1..Len(events) : events[k] = e})

(* The figure is saved only when fully plotted, and shown only when saved. *)
SaveAndShowInOrder ==
    /\ file # <<>> =>
          /\ file = panels
          /\ Len(panels) = 3
          /\ \A p \in 1..3 : Len(panels[p]) = Len(viz_points)
    /\ shown # <<>> => (file # <<>> /\ shown = file)
    /\ \A a, b \in 1..Len(events) :
          /\ (events[a] = "save" /\ a < b) => events[b] = "show"
          /\ events[a] = "show" => (a = Len(events) /\ a > 1 /\ events[a - 1] = "save")

(* C8 as stated: no root search after the first classification, the figure *)
(* saved only when fully plotted and shown only when saved.                *)
C8_Original ==
    /\ \A a, b \in 1..Len(events) :
          (a < b /\ events[a] = "classify") => events[b] # "solve"
    /\ SaveAndShowInOrder

(* C8, amended: the steps of main come in the order root search, report    *)
(* (classification), root search again (in create_visualization), plot     *)
(* (with classification), save, show: each root search is complete before  *)
(* what follows it, no root search happens once plotting has begun, the    *)
(* figure is saved only when fully plotted and shown only when saved.      *)
C8_StepOrder ==
    LET r1 == DropWhile(events, {"solve"})
        r2 == DropWhile(r1, {"classify"})
        r3 == DropWhile(r2, {"solve"})
        r4 == DropWhile(r3, {"classify", "plot"})
    IN  /\ r4 \in {<<>>, <<"save">>, <<"save", "show">>}
        /\ r1 # <<>> => Len(events) - Len(r1) >= Len(guesses)
        /\ r3 # <<>> => Occurrences("solve") = 2 * Len(guesses)
        /\ Len(r1) - Len(r2) \in {0, Len(rows)}
        /\ pc = "done" => r4 = <<"save", "show">>
        /\ SaveAndShowInOrder

(* main is done, and the report classified three roots before the second   *)
(* root search ran.                                                        *)
C8_Witness ==
    /\ pc = "done"
    /\ Len(rows) = 3
    /\ events[4] = "classify"
    /\ events[7] = "solve"

C10_GreedyAppendOnly ==
    [][InLoop =>
          LET outcome == fsolve[guesses[i]] IN
          /\ \/ equilibrium_points' = equilibrium_points
             \/ /\ ~outcome.raises
                /\ equilibrium_points' = Append(equilibrium_points, outcome.x)
          /\ (/\ ~outcome.raises
              /\ \E k \in 1..Len(equilibrium_points) :
                    ExactClose(outcome.x, equilibrium_points[k]))
                => equilibrium_points' = equilibrium_points]_vars

(* The candidate of the seed just processed passes the force test with a   *)
(* smaller |force| than an accepted point within 0.1 of it, and was dropped. *)
C10_Witness ==
    /\ pc = "find"
    /\ i > 1
    /\ LET outcome == fsolve[guesses[i - 1]] IN
       /\ ~outcome.raises
       /\ PassesTol(outcome.x)
       /\ outcome.x \notin Range(equilibrium_points)
       /\ \E k \in 1..Len(equilibrium_points) :
             /\ ExactClose(outcome.x, equilibrium_points[k])
             /\ FLt(FAbs(force(outcome.x)), FAbs(force(equilibrium_points[k])))

=============================================================================
